---------------------------- MODULE Spec2Model ----------------------------
(***************************************************************************)
(* A model of the vibematch server: the match (connection request)         *)
(* endpoints of server/routes.ts over the storage of server/storage.ts,    *)
(* the project sub-resource endpoints with the member access toggle, the   *)
(* profile and project endpoints with resolveCurrentProfile, and the       *)
(* suggestion endpoint with generateMatches of server/aiMatchingService.ts.*)
(* Of the client it has the array inputs of the project creation form      *)
(* (pages/Projects.tsx) and the loading of the project dashboard           *)
(* (pages/ProjectDashboard.tsx with TasksSection and TeamSection).         *)
(*                                                                         *)
(* The database tables are the variables; every Express handler is an      *)
(* action (POST /api/matches is two actions, one per storage call, since   *)
(* other requests run between its awaits).  req and resp hold the request  *)
(* a handler has just answered and its answer, until the answer is sent.   *)
(***************************************************************************)
EXTENDS Integers, Sequences, FiniteSets, Bags, TLC

VARIABLES
    profiles,   \* table profiles, in insertion order: [id, userId, role]
    matches,    \* table matches, in insertion order; the id of a row is its index
    created,    \* history: the receiverId each match was inserted with
    inflight,   \* POST /api/matches requests between their check and their insert
    now,        \* the server's clock
    projects,   \* table projects: [id, vibeCodeId]
    members,    \* table project_members, in insertion order; the id is the index
    tasks,      \* table tasks: [projectId, assignedTo], the id is the index
    repos,      \* table code_repositories: [projectId], the id is the index
    contribs,   \* table contributions: [projectId, contributorId], the id is the index
    req,        \* the request that has just been answered, or NoReq
    resp,       \* its answer, or NoResp
    nodeEnv,    \* process.env.NODE_ENV
    aiCall,     \* the call to the generation service made for the request that
                \* has just been answered: its candidates and the kind of its
                \* answer, with the role filter of the request's query
    form,       \* client: the project creation form of the Projects page
    page        \* client: the project dashboard page of one browser

vars == <<profiles, matches, created, inflight, now, projects, members,
          tasks, repos, contribs, req, resp, nodeEnv, aiCall, form, page>>

matchVars == <<matches, created, inflight, now>>
projectVars == <<projects, members, tasks, repos, contribs>>
envVars == <<nodeEnv, aiCall>>
clientVars == <<form, page>>

-----------------------------------------------------------------------------
(* Bounds of the model. *)

MaxMatches == 2
MaxClock == 1
MaxMembers == 2
MaxTasks == 2
MaxRepos == 1
MaxContribs == 1
MaxProfiles == 3
MaxProjects == 1
MaxPending == 2
MaxExtra == 21
MaxReply == 21
MaxItems == 3

-----------------------------------------------------------------------------
(* Values. *)

NoVal == "absent"       \* a key the request body does not carry; no header
Null == "null"          \* SQL NULL / JS null

\* account ids (users.id, the OIDC sub, the x-user-id header)
UserIds == {"u1", "u2", "u3"}
\* gen_random_uuid() values, in the order the profiles table hands them out
ProfileIdSeq == <<"p1", "p2", "p3">>
ProfileIds == {ProfileIdSeq[i] : i \in 1..Len(ProfileIdSeq)}
\* the profiles requests name as initiator or receiver of a match
MatchParties == {"p1", "p2"}
ProjectIds == {"j1"}

Statuses == {"pending", "accepted", "rejected"}
TimeNames == <<"t0", "t1", "t2", "t3">>
Times == {TimeNames[i + 1] : i \in 0..MaxClock}
Date(n) == TimeNames[n + 1]

NoProfile == [id |-> NoVal, userId |-> NoVal, role |-> NoVal]
NoReq == [op |-> "none", caller |-> NoVal, peer |-> NoVal, id |-> 0, arg |-> NoVal]
NoResp == [status |-> 0, body |-> {}]

Request(op, caller, peer, id, arg) ==
    [op |-> op, caller |-> caller, peer |-> peer, id |-> id, arg |-> arg]
Response(status, body) == [status |-> status, body |-> body]

\* the values of NODE_ENV the code tells apart: development, test, anything else
NodeEnvs == {"development", "test", "production"}
\* no call of the generation service
NoCall == [candidates |-> <<>>, reply |-> "none", role |-> NoVal]
\* no browser: the form is not open, no dashboard is loading
NoForm == "closed"
NoPage ==
    [open |-> FALSE, viewer |-> NoVal, projectId |-> NoVal,
     authLoading |-> FALSE, user |-> NoVal,
     projectLoading |-> FALSE, project |-> [id |-> NoVal, vibeCodeId |-> NoVal],
     membersLoaded |-> FALSE, members |-> <<>>,
     tasksLoaded |-> FALSE, tasks |-> <<>>]

-----------------------------------------------------------------------------
(* server/storage.ts: the queries the handlers use. *)

\* getProfileByUserId: the newest profile of the account, or undefined
getProfileByUserId(ps, userId) ==
    LET own == {i \in DOMAIN ps : ps[i].userId = userId}
    IN  IF own = {} THEN NoProfile
        ELSE ps[CHOOSE i \in own : \A j \in own : j <= i]

\* the constraints of table profiles on an insert of data = [userId, name,
\* role]: name and role are NOT NULL, user_id refers to users and is UNIQUE
\* (NULLs apart).  This one leaves the UNIQUE out.
profileInsertAllowedNoUnique(ps, data) ==
    /\ data.name # NoVal
    /\ data.role # NoVal
    /\ data.userId \in UserIds \cup {Null}

profileInsertAllowed(ps, data) ==
    /\ data.name # NoVal
    /\ data.role # NoVal
    /\ data.userId \in UserIds \cup {Null}
    /\ data.userId # Null => \A i \in DOMAIN ps : ps[i].userId # data.userId

\* createProfile: the table hands out the next id
createProfile(ps, data) ==
    Append(ps, [id |-> ProfileIdSeq[Len(ps) + 1], userId |-> data.userId,
                role |-> data.role])

profileExists(ps, id) == \E i \in DOMAIN ps : ps[i].id = id

\* getMatches: the ids of the matches the profile initiated or received
getMatches(ms, profileId) ==
    {i \in DOMAIN ms : ms[i].initiatorId = profileId \/ ms[i].receiverId = profileId}

\* createMatch: status defaults to 'pending', respondedAt to NULL
createMatch(ms, data) ==
    Append(ms, [initiatorId |-> data.initiatorId,
                receiverId  |-> data.receiverId,
                status      |-> IF data.status = NoVal THEN "pending" ELSE data.status,
                respondedAt |-> Null])

\* updateMatch: UPDATE matches SET <the keys of the object> WHERE id = ...
updateMatch(ms, id, upd) ==
    [ms EXCEPT ![id] =
        [initiatorId |-> @.initiatorId,
         receiverId  |-> IF upd.receiverId = NoVal THEN @.receiverId ELSE upd.receiverId,
         status      |-> IF upd.status = NoVal THEN @.status ELSE upd.status,
         respondedAt |-> IF upd.respondedAt = NoVal THEN @.respondedAt
                         ELSE upd.respondedAt]]

-----------------------------------------------------------------------------
(* server/routes.ts: resolveCurrentProfile. *)

\* the role line 47 derives from the account id of an auto-created profile
DevRole(userId) ==
    CASE userId = "u1" -> "coder"
      [] userId = "u2" -> "investor"
      [] OTHER -> "technical"

\* the object lines 41-48 hand to createProfile: it has no name
DevProfile(userId) == [userId |-> userId, role |-> DevRole(userId), name |-> NoVal]

\* cred = [hdr, sub]: the x-user-id header and the session's claims.sub.
\* The result is the profile (or NoProfile for null), the profiles table
\* after the call, and whether the call threw (the insert was rejected).
resolveCurrentProfile(ps, cred) ==
    LET hasDevHeader == cred.hdr # NoVal
        allowDevAuth == nodeEnv = "development" \/ nodeEnv = "test" \/ hasDevHeader
        userId == IF allowDevAuth /\ cred.hdr # NoVal THEN cred.hdr ELSE cred.sub
        found == getProfileByUserId(ps, userId)
    IN  IF userId = NoVal
        THEN [profile |-> NoProfile, table |-> ps, threw |-> FALSE]
        ELSE IF found = NoProfile /\ allowDevAuth /\ hasDevHeader
        THEN IF profileInsertAllowed(ps, DevProfile(userId))
             THEN LET t == createProfile(ps, DevProfile(userId))
                  IN  [profile |-> t[Len(t)], table |-> t, threw |-> FALSE]
             ELSE [profile |-> NoProfile, table |-> ps, threw |-> TRUE]
        ELSE [profile |-> found, table |-> ps, threw |-> FALSE]

-----------------------------------------------------------------------------
(* POST /api/matches *)

\* the bodies: a request to another profile, with or without a status key
PostBodies ==
    {d \in [initiatorId : MatchParties, receiverId : MatchParties,
            status : Statuses \cup {NoVal}] : d.initiatorId # d.receiverId}

\* hasPendingMatch without its second disjunct (line 453)
hasPendingMatchForward(ms, data) ==
    \E i \in getMatches(ms, data.initiatorId) :
        /\ ms[i].initiatorId = data.initiatorId
        /\ ms[i].receiverId = data.receiverId
        /\ ms[i].status = "pending"

\* lines 451-454: a pending match between the two, in either direction
hasPendingMatch(ms, data) ==
    \E i \in getMatches(ms, data.initiatorId) :
        \/ /\ ms[i].initiatorId = data.initiatorId
           /\ ms[i].receiverId = data.receiverId
           /\ ms[i].status = "pending"
        \/ /\ ms[i].initiatorId = data.receiverId
           /\ ms[i].receiverId = data.initiatorId
           /\ ms[i].status = "pending"

\* lines 447-458: parse the body, read the initiator's matches, answer 409 or
\* go on to the insert.  schemaOk is the outcome of insertMatchSchema.parse
\* for the keys the model does not carry (matchType is required).
PostMatchCheck(data, schemaOk) ==
    /\ req = NoReq
    /\ Len(matches) + BagCardinality(inflight) < MaxMatches
    /\ IF ~schemaOk
       THEN /\ req' = Request("postMatch", data.initiatorId, data.receiverId, 0, "invalid")
            /\ resp' = Response(400, {})
            /\ UNCHANGED inflight
       ELSE IF hasPendingMatch(matches, data)
       THEN /\ req' = Request("postMatch", data.initiatorId, data.receiverId, 0, data.status)
            /\ resp' = Response(409, {})
            /\ UNCHANGED inflight
       ELSE /\ inflight' = inflight (+) SetToBag({data})
            /\ UNCHANGED <<req, resp>>
    /\ UNCHANGED <<profiles, matches, created, now, projectVars, envVars, clientVars>>

\* the insert as one transaction with a second look at the table
PostMatchInsertRechecked(data) ==
    /\ req = NoReq
    /\ BagIn(data, inflight)
    /\ inflight' = inflight (-) SetToBag({data})
    /\ IF hasPendingMatch(matches, data)
       THEN /\ UNCHANGED <<matches, created>>
            /\ req' = Request("postMatch", data.initiatorId, data.receiverId,
                              0, data.status)
            /\ resp' = Response(409, {})
       ELSE /\ matches' = createMatch(matches, data)
            /\ created' = Append(created, data.receiverId)
            /\ req' = Request("postMatch", data.initiatorId, data.receiverId,
                              Len(matches) + 1, data.status)
            /\ resp' = Response(201, {Len(matches) + 1})
    /\ UNCHANGED <<profiles, now, projectVars, envVars, clientVars>>

\* lines 460-464: the insert; a foreign key the table rejects is caught as 400
PostMatchInsert(data) ==
    /\ req = NoReq
    /\ BagIn(data, inflight)
    /\ inflight' = inflight (-) SetToBag({data})
    /\ IF profileExists(profiles, data.initiatorId) /\ profileExists(profiles, data.receiverId)
       THEN /\ matches' = createMatch(matches, data)
            /\ created' = Append(created, data.receiverId)
            /\ req' = Request("postMatch", data.initiatorId, data.receiverId,
                              Len(matches) + 1, data.status)
            /\ resp' = Response(201, {Len(matches) + 1})
       ELSE /\ UNCHANGED <<matches, created>>
            /\ req' = Request("postMatch", data.initiatorId, data.receiverId,
                              0, data.status)
            /\ resp' = Response(400, {})
    /\ UNCHANGED <<profiles, now, projectVars, envVars, clientVars>>

-----------------------------------------------------------------------------
(* PATCH /api/matches/:id *)

\* the callers: an x-user-id header, a session, or neither
Creds ==
    {[hdr |-> u, sub |-> NoVal] : u \in UserIds}
    \cup {[hdr |-> NoVal, sub |-> u] : u \in UserIds \cup {NoVal}}

\* the keys of the body that are columns of the table: { ...req.body } goes
\* to UPDATE ... SET as it is
PatchBodies ==
    [status : Statuses \cup {NoVal},
     respondedAt : Times \cup {NoVal, Null},
     receiverId : MatchParties \cup {NoVal}]

\* lines 485-489: does the body ask for a status other than pending
setsStatus(body) == body.status # NoVal /\ body.status # "pending"

\* lines 491-497: the object handed to updateMatch
updateData(body, clock) ==
    [status |-> body.status,
     receiverId |-> body.receiverId,
     respondedAt |->
        IF body.respondedAt \notin {NoVal, Null} THEN body.respondedAt
        ELSE IF setsStatus(body) THEN Date(clock)
        ELSE body.respondedAt]

\* the handler behind the isAuthenticated middleware (server/replitAuth.ts)
PatchMatch(cred, id, body) ==
    LET r == resolveCurrentProfile(profiles, cred)
        me == r.profile.id
        upd == updateData(body, now)
        answer(status, ms) ==
            /\ matches' = ms
            /\ req' = Request("patchMatch", me, NoVal, id, body.status)
            /\ resp' = Response(status, {})
    IN  /\ req = NoReq
        /\ id \in 1..MaxMatches
        /\ profiles' = r.table
        /\ IF r.threw
           THEN answer(400, matches)
           ELSE IF r.profile = NoProfile
           THEN answer(401, matches)
           ELSE IF id \notin getMatches(matches, me)
           THEN answer(404, matches)
           ELSE IF setsStatus(body) /\ matches[id].receiverId # me
           THEN answer(403, matches)
           \* an update without values, or with a receiver that is no profile,
           \* throws in storage and is caught as 400
           ELSE IF \/ upd = [status |-> NoVal, receiverId |-> NoVal, respondedAt |-> NoVal]
                   \/ upd.receiverId # NoVal /\ ~profileExists(r.table, upd.receiverId)
           THEN answer(400, matches)
           ELSE answer(200, updateMatch(matches, id, upd))
        /\ UNCHANGED <<created, inflight, now, projectVars, envVars, clientVars>>

\* time passes
Tick ==
    /\ req = NoReq
    /\ now < MaxClock
    /\ now' = now + 1
    /\ UNCHANGED <<profiles, matches, created, inflight, projectVars, req, resp, envVars, clientVars>>

\* res.json(...): the answer leaves the server
Sent ==
    /\ req # NoReq
    /\ req' = NoReq
    /\ resp' = NoResp
    /\ aiCall' = NoCall
    /\ UNCHANGED <<profiles, matchVars, projectVars, nodeEnv, clientVars>>

-----------------------------------------------------------------------------
(* The match endpoints over a database with two profiles and no match. *)

InitProfiles ==
    <<[id |-> "p1", userId |-> "u1", role |-> "coder"],
      [id |-> "p2", userId |-> "u2", role |-> "investor"]>>

InitMatch ==
    /\ profiles = InitProfiles
    /\ matches = <<>>
    /\ created = <<>>
    /\ inflight = EmptyBag
    /\ now = 0
    /\ projects = <<>>
    /\ members = <<>>
    /\ tasks = <<>>
    /\ repos = <<>>
    /\ contribs = <<>>
    /\ req = NoReq
    /\ resp = NoResp
    /\ nodeEnv = "development"
    /\ aiCall = NoCall
    /\ form = NoForm
    /\ page = NoPage

NextMatch ==
    \/ \E data \in PostBodies, schemaOk \in BOOLEAN : PostMatchCheck(data, schemaOk)
    \/ \E data \in PostBodies : PostMatchInsert(data)
    \/ \E cred \in Creds, id \in 1..MaxMatches, body \in PatchBodies :
            PatchMatch(cred, id, body)
    \/ Tick
    \/ Sent

SpecMatch == InitMatch /\ [][NextMatch]_vars

\* The creation path alone: PATCH bodies that carry a status and nothing else.
StatusBodies == {b \in PatchBodies : b.respondedAt = NoVal /\ b.receiverId = NoVal}

NextCreate ==
    \/ \E data \in PostBodies, schemaOk \in BOOLEAN : PostMatchCheck(data, schemaOk)
    \/ \E data \in PostBodies : PostMatchInsert(data)
    \/ \E cred \in Creds, id \in 1..MaxMatches, body \in StatusBodies :
            PatchMatch(cred, id, body)
    \/ Tick
    \/ Sent

SpecCreate == InitMatch /\ [][NextCreate]_vars

-----------------------------------------------------------------------------
(* The project sub-resources: members, tasks, repositories, contributions. *)

\* the x-user-id header: absent, an account id, or any other string, such as
\* the id of a profile
Headers == UserIds \cup ProfileIds \cup {NoVal}

\* getProject
getProject(js, id) ==
    LET hit == {i \in DOMAIN js : js[i].id = id}
    IN  IF hit = {} THEN [id |-> NoVal, vibeCodeId |-> NoVal]
        ELSE js[CHOOSE i \in hit : TRUE]

\* getProjectMembers, getTasksByProject, getCodeRepositoriesByProject,
\* getContributionsByProject: the ids of the rows of the project
rowsOfProject(rows, projectId) == {i \in DOMAIN rows : rows[i].projectId = projectId}

\* updateProjectMember: UPDATE project_members SET <the keys of the object>
\* WHERE id = ...
updateProjectMember(rows, id, upd) ==
    [rows EXCEPT ![id] =
        [projectId |-> @.projectId,
         profileId |-> IF upd.profileId = NoVal THEN @.profileId ELSE upd.profileId,
         role |-> IF upd.role = NoVal THEN @.role ELSE upd.role,
         compensationType |-> IF upd.compensationType = NoVal THEN @.compensationType
                              ELSE upd.compensationType,
         hasAccess |-> upd.hasAccess]]

\* the four list handlers: none of them looks at the caller
GetList(op, rows, hdr, projectId) ==
    /\ req = NoReq
    /\ req' = Request(op, hdr, projectId, 0, NoVal)
    /\ resp' = Response(200, rowsOfProject(rows, projectId))
    /\ UNCHANGED <<profiles, matchVars, projectVars, envVars, clientVars>>

\* GET /api/projects/:projectId/members
GetMembers(hdr, projectId) == GetList("getMembers", members, hdr, projectId)
\* GET /api/projects/:projectId/tasks
GetTasks(hdr, projectId) == GetList("getTasks", tasks, hdr, projectId)
\* GET /api/projects/:projectId/repositories
GetRepositories(hdr, projectId) == GetList("getRepositories", repos, hdr, projectId)
\* GET /api/projects/:projectId/contributions
GetContributions(hdr, projectId) == GetList("getContributions", contribs, hdr, projectId)

\* the bodies of POST members that insertProjectMemberSchema accepts
MemberRoles == {"technical", "investor"}
CompensationTypes == {"money", "ownership"}
MemberBodies ==
    [profileId : ProfileIds, role : MemberRoles,
     compensationType : CompensationTypes, hasAccess : BOOLEAN]
\* ... those for a technical member paid in money
TechnicalBodies ==
    {d \in MemberBodies : d.role = "technical" /\ d.compensationType = "money"}

\* POST /api/projects/:projectId/members: hasAccess defaults to false
PostMember(projectId, data) ==
    /\ req = NoReq
    /\ Len(members) < MaxMembers
    /\ req' = Request("postMember", NoVal, projectId, Len(members) + 1, NoVal)
    /\ IF profileExists(profiles, data.profileId) /\ getProject(projects, projectId).id # NoVal
       THEN /\ members' = Append(members, [projectId |-> projectId,
                                           profileId |-> data.profileId,
                                           role |-> data.role,
                                           compensationType |-> data.compensationType,
                                           hasAccess |-> data.hasAccess])
            /\ resp' = Response(201, {Len(members) + 1})
       ELSE /\ UNCHANGED members
            /\ resp' = Response(400, {})
    /\ UNCHANGED <<profiles, matchVars, projects, tasks, repos, contribs, envVars, clientVars>>

\* POST /api/projects/:projectId/tasks
PostTask(projectId, assignedTo) ==
    /\ req = NoReq
    /\ Len(tasks) < MaxTasks
    /\ req' = Request("postTask", NoVal, projectId, Len(tasks) + 1, NoVal)
    /\ IF (assignedTo = Null \/ profileExists(profiles, assignedTo))
          /\ getProject(projects, projectId).id # NoVal
       THEN /\ tasks' = Append(tasks, [projectId |-> projectId, assignedTo |-> assignedTo])
            /\ resp' = Response(201, {Len(tasks) + 1})
       ELSE /\ UNCHANGED tasks
            /\ resp' = Response(400, {})
    /\ UNCHANGED <<profiles, matchVars, projects, members, repos, contribs, envVars, clientVars>>

\* POST /api/projects/:projectId/repositories
PostRepository(projectId, uploadedBy) ==
    /\ req = NoReq
    /\ Len(repos) < MaxRepos
    /\ req' = Request("postRepository", NoVal, projectId, Len(repos) + 1, NoVal)
    /\ IF profileExists(profiles, uploadedBy) /\ getProject(projects, projectId).id # NoVal
       THEN /\ repos' = Append(repos, [projectId |-> projectId, uploadedBy |-> uploadedBy])
            /\ resp' = Response(201, {Len(repos) + 1})
       ELSE /\ UNCHANGED repos
            /\ resp' = Response(400, {})
    /\ UNCHANGED <<profiles, matchVars, projects, members, tasks, contribs, envVars, clientVars>>

\* POST /api/projects/:projectId/contributions
PostContribution(projectId, contributorId) ==
    /\ req = NoReq
    /\ Len(contribs) < MaxContribs
    /\ req' = Request("postContribution", NoVal, projectId, Len(contribs) + 1, NoVal)
    /\ IF profileExists(profiles, contributorId) /\ getProject(projects, projectId).id # NoVal
       THEN /\ contribs' = Append(contribs, [projectId |-> projectId,
                                             contributorId |-> contributorId])
            /\ resp' = Response(201, {Len(contribs) + 1})
       ELSE /\ UNCHANGED contribs
            /\ resp' = Response(400, {})
    /\ UNCHANGED <<profiles, matchVars, projects, members, tasks, repos, envVars, clientVars>>

\* the bodies of the toggle: ok tells whether hasAccess is a boolean (when it
\* is not, the model's hasAccess is not looked at); the other keys are columns
\* of the table a body may carry besides
ToggleBodies ==
    [ok : BOOLEAN, hasAccess : BOOLEAN,
     profileId : {NoVal, "p3"}, role : {NoVal, "investor"},
     compensationType : {NoVal, "ownership"}]
\* ... those with the hasAccess key alone
PlainToggleBodies ==
    {b \in ToggleBodies :
        b.profileId = NoVal /\ b.role = NoVal /\ b.compensationType = NoVal}

\* the body as it is, unknown keys kept
updateSchemaPassthrough(body) ==
    [hasAccess |-> body.hasAccess, profileId |-> body.profileId,
     role |-> body.role, compensationType |-> body.compensationType]

\* lines 226-230: z.object({ hasAccess }).parse drops every other key
updateSchemaParse(body) ==
    [hasAccess |-> body.hasAccess, profileId |-> NoVal,
     role |-> NoVal, compensationType |-> NoVal]

BoolStr(b) == IF b THEN "true" ELSE "false"

\* lines 245-247: the header against the project's vibeCodeId
isProjectOwner(currentUserId, project) == currentUserId = project.vibeCodeId

\* PATCH /api/project-members/:id; req.peer is the profileId key of the body
PatchMember(hdr, id, body) ==
    LET memberToUpdate == members[id]
        project == getProject(projects, memberToUpdate.projectId)
        answer(status, rows) ==
            /\ members' = rows
            /\ resp' = Response(status, {})
    IN  /\ req = NoReq
        /\ id \in 1..MaxMembers
        /\ req' = Request("patchMember", hdr, body.profileId, id,
                          IF body.ok THEN BoolStr(body.hasAccess) ELSE "invalid")
        /\ IF hdr = NoVal
           THEN answer(401, members)
           ELSE IF ~body.ok
           THEN answer(400, members)
           ELSE IF id \notin DOMAIN members
           THEN answer(404, members)
           ELSE IF project.id = NoVal
           THEN answer(404, members)
           ELSE IF ~isProjectOwner(hdr, project)
           THEN answer(403, members)
           ELSE answer(200, updateProjectMember(members, id, updateSchemaParse(body)))
        /\ UNCHANGED <<profiles, matchVars, projects, tasks, repos, contribs, envVars, clientVars>>

\* A database with three profiles and the project of the first of them.
InitAccess ==
    /\ profiles = Append(InitProfiles, [id |-> "p3", userId |-> "u3", role |-> "technical"])
    /\ matches = <<>>
    /\ created = <<>>
    /\ inflight = EmptyBag
    /\ now = 0
    /\ projects = <<[id |-> "j1", vibeCodeId |-> "p1", status |-> "active"]>>
    /\ members = <<>>
    /\ tasks = <<>>
    /\ repos = <<>>
    /\ contribs = <<>>
    /\ req = NoReq
    /\ resp = NoResp
    /\ nodeEnv = "production"
    /\ aiCall = NoCall
    /\ form = NoForm
    /\ page = NoPage

NextAccess ==
    \/ \E hdr \in Headers, j \in ProjectIds : GetMembers(hdr, j)
    \/ \E hdr \in Headers, j \in ProjectIds : GetTasks(hdr, j)
    \/ \E hdr \in Headers, j \in ProjectIds : GetRepositories(hdr, j)
    \/ \E hdr \in Headers, j \in ProjectIds : GetContributions(hdr, j)
    \/ \E j \in ProjectIds, data \in TechnicalBodies : PostMember(j, data)
    \/ \E j \in ProjectIds, p \in ProfileIds \cup {Null} : PostTask(j, p)
    \/ \E j \in ProjectIds, p \in ProfileIds : PostRepository(j, p)
    \/ \E j \in ProjectIds, p \in ProfileIds : PostContribution(j, p)
    \/ \E hdr \in Headers, id \in 1..MaxMembers, body \in PlainToggleBodies :
            PatchMember(hdr, id, body)
    \/ Sent

SpecAccess == InitAccess /\ [][NextAccess]_vars

\* The member rows alone, with every kind of member and of toggle body.
NextToggle ==
    \/ \E j \in ProjectIds, data \in MemberBodies : PostMember(j, data)
    \/ \E hdr \in {NoVal, "p1", "p2"}, id \in 1..MaxMembers, body \in ToggleBodies :
            PatchMember(hdr, id, body)
    \/ Sent

SpecToggle == InitAccess /\ [][NextToggle]_vars

-----------------------------------------------------------------------------
(* Profiles and projects: POST /api/profiles, POST and PATCH /api/projects. *)

Roles == {"coder", "investor", "technical"}
\* gen_random_uuid() values, in the order the projects table hands them out
ProjectIdSeq == <<"j1", "j2", "j3">>
ProjectStatuses == {"active", "archived"}

\* the bodies of POST /api/profiles: name is required by insertProfileSchema,
\* userId is optional
ProfileBodies == [userId : UserIds \cup {Null}, role : Roles, name : {"name", NoVal}]

\* POST /api/profiles: parse, insert, 201; whatever throws is answered 400
PostProfile(data) ==
    /\ req = NoReq
    /\ Len(profiles) < MaxProfiles
    /\ Len(profiles) < Len(ProfileIdSeq)
    /\ req' = Request("postProfile", NoVal, data.name, 0, data.userId)
    /\ IF data.name # NoVal /\ profileInsertAllowed(profiles, data)
       THEN /\ profiles' = createProfile(profiles, data)
            /\ resp' = Response(201, {ProfileIdSeq[Len(profiles) + 1]})
       ELSE /\ UNCHANGED profiles
            /\ resp' = Response(400, {})
    /\ UNCHANGED <<matchVars, projectVars, envVars, clientVars>>

\* the bodies of POST /api/projects: the owner is a key of the body
ProjectBodies == [vibeCodeId : ProfileIds, ok : BOOLEAN]

\* createProject: status defaults to 'active'
createProject(js, data) ==
    Append(js, [id |-> ProjectIdSeq[Len(js) + 1], vibeCodeId |-> data.vibeCodeId,
                status |-> "active"])

\* does resolveCurrentProfile go on to createProfile (lines 37-40): a header
\* and no profile of its account
wouldProvision(ps, cred) ==
    cred.hdr # NoVal /\ getProfileByUserId(ps, cred.hdr) = NoProfile

\* POST /api/projects past resolveCurrentProfile: r is what that returned;
\* ok is the outcome of insertProjectSchema.parse for the keys the model does
\* not carry
postProjectWith(r, cred, data) ==
    /\ req' = Request("postProject", cred.hdr, cred.sub, 0, data.vibeCodeId)
    /\ profiles' = r.table
    /\ IF r.threw
       THEN /\ resp' = Response(400, {})
            /\ UNCHANGED projects
       ELSE IF r.profile = NoProfile
       THEN /\ resp' = Response(401, {})
            /\ UNCHANGED projects
       ELSE IF ~data.ok \/ ~profileExists(r.table, data.vibeCodeId)
       THEN /\ resp' = Response(400, {})
            /\ UNCHANGED projects
       ELSE /\ resp' = Response(201, {ProjectIdSeq[Len(projects) + 1]})
            /\ projects' = createProject(projects, data)

\* POST /api/projects up to the answer, or, when resolveCurrentProfile finds
\* no profile for the header, up to its await of getProfileByUserId (line 37):
\* other requests run before the insert of line 42
PostProject(cred, data) ==
    /\ req = NoReq
    /\ Len(projects) < MaxProjects
    /\ Len(projects) < Len(ProjectIdSeq)
    /\ IF wouldProvision(profiles, cred)
       THEN /\ BagCardinality(inflight) < MaxPending
            /\ inflight' = inflight (+) SetToBag({[cred |-> cred, data |-> data]})
            /\ UNCHANGED <<profiles, projects, req, resp>>
       ELSE /\ postProjectWith(resolveCurrentProfile(profiles, cred), cred, data)
            /\ UNCHANGED inflight
    /\ UNCHANGED <<matches, created, now, members, tasks, repos, contribs, envVars, clientVars>>

\* the rest of POST /api/projects for a request that found no profile: the
\* insert of lines 42-49, which the table accepts or rejects as it is now
PostProjectProvision(cred, data) ==
    LET row == DevProfile(cred.hdr)
        r == IF profileInsertAllowed(profiles, row)
             THEN LET t == createProfile(profiles, row)
                  IN  [profile |-> t[Len(t)], table |-> t, threw |-> FALSE]
             ELSE [profile |-> NoProfile, table |-> profiles, threw |-> TRUE]
    IN  /\ req = NoReq
        /\ BagIn([cred |-> cred, data |-> data], inflight)
        /\ inflight' = inflight (-) SetToBag({[cred |-> cred, data |-> data]})
        /\ postProjectWith(r, cred, data)
        /\ UNCHANGED <<matches, created, now, members, tasks, repos, contribs, envVars, clientVars>>

\* the keys of the body of PATCH /api/projects/:id that are columns: req.body
\* goes to UPDATE ... SET as it is
ProjectPatches == [vibeCodeId : ProfileIds \cup {NoVal},
                   status : ProjectStatuses \cup {NoVal}]

\* updateProject: UPDATE projects SET <the keys of the object>, updatedAt
updateProject(js, id, upd) ==
    [i \in DOMAIN js |->
        IF js[i].id # id THEN js[i]
        ELSE [id |-> js[i].id,
              vibeCodeId |-> IF upd.vibeCodeId = NoVal THEN js[i].vibeCodeId
                             ELSE upd.vibeCodeId,
              status |-> IF upd.status = NoVal THEN js[i].status ELSE upd.status]]

\* PATCH /api/projects/:id: no look at the caller; cred is what the request
\* carries all the same
PatchProject(cred, id, upd) ==
    /\ req = NoReq
    /\ req' = Request("patchProject", cred.hdr, cred.sub, 0, id)
    /\ IF upd.vibeCodeId # NoVal /\ ~profileExists(profiles, upd.vibeCodeId)
       THEN /\ resp' = Response(400, {})
            /\ UNCHANGED projects
       ELSE IF getProject(projects, id).id = NoVal
       THEN /\ resp' = Response(404, {})
            /\ UNCHANGED projects
       ELSE /\ resp' = Response(200, {})
            /\ projects' = updateProject(projects, id, upd)
    /\ UNCHANGED <<profiles, matchVars, members, tasks, repos, contribs, envVars, clientVars>>

\* A database with two profiles and no project, under any NODE_ENV.
InitAuth ==
    /\ profiles = InitProfiles
    /\ matches = <<>>
    /\ created = <<>>
    /\ inflight = EmptyBag
    /\ now = 0
    /\ projects = <<>>
    /\ members = <<>>
    /\ tasks = <<>>
    /\ repos = <<>>
    /\ contribs = <<>>
    /\ req = NoReq
    /\ resp = NoResp
    /\ nodeEnv \in NodeEnvs
    /\ aiCall = NoCall
    /\ form = NoForm
    /\ page = NoPage

NextAuth ==
    \/ \E cred \in Creds, data \in ProjectBodies : PostProject(cred, data)
    \/ \E cred \in Creds, data \in ProjectBodies : PostProjectProvision(cred, data)
    \/ \E cred \in Creds, j \in ProjectIds, upd \in ProjectPatches :
            PatchProject(cred, j, upd)
    \/ \E j \in ProjectIds, data \in TechnicalBodies : PostMember(j, data)
    \/ \E hdr \in Headers, id \in 1..MaxMembers, body \in PlainToggleBodies :
            PatchMember(hdr, id, body)
    \/ Sent

SpecAuth == InitAuth /\ [][NextAuth]_vars

\* The ways a profile comes to be: POST /api/profiles and the header of a
\* request that goes through resolveCurrentProfile.
NextProfile ==
    \/ \E data \in ProfileBodies : PostProfile(data)
    \/ \E cred \in Creds, data \in ProjectBodies : PostProject(cred, data)
    \/ \E cred \in Creds, data \in ProjectBodies : PostProjectProvision(cred, data)
    \/ Sent

SpecProfile == InitAuth /\ [][NextProfile]_vars

-----------------------------------------------------------------------------
(* server/aiMatchingService.ts and GET /api/matches/suggestions/:profileId. *)

\* the ids of the further rows of the profiles table
ExtraIdSeq == <<"q1", "q2", "q3", "q4", "q5", "q6", "q7", "q8", "q9", "q10",
                "q11", "q12", "q13", "q14", "q15", "q16", "q17", "q18", "q19",
                "q20", "q21", "q22", "q23", "q24">>

ExtraIndex(id) ==
    LET hit == {i \in DOMAIN ExtraIdSeq : ExtraIdSeq[i] = id}
    IN  IF hit = {} THEN 0 ELSE CHOOSE i \in hit : TRUE

AllProfileIds == ProfileIds \cup {ExtraIdSeq[i] : i \in DOMAIN ExtraIdSeq}

\* profiles.tags of the rows (an array), which no request of the model changes
TagTable ==
    [id \in AllProfileIds |->
        CASE id = "p1" -> <<"ai", "web">>
          [] id = "p2" -> <<"ai">>
          [] ExtraIndex(id) % 3 = 1 -> <<"ai", "web">>
          [] ExtraIndex(id) % 3 = 2 -> <<"web", "bio", "web">>
          [] OTHER -> <<>>]

TagsOf(id) == TagTable[id]

\* profiles.location of the rows
LocationTable ==
    [id \in AllProfileIds |->
        CASE id = "p1" -> "berlin"
          [] id = "p2" -> Null
          [] ExtraIndex(id) % 2 = 0 -> "berlin"
          [] OTHER -> "paris"]

LocationOf(id) == LocationTable[id]

\* getProfile: the row with the id, or undefined
getProfile(ps, id) ==
    LET hit == {i \in DOMAIN ps : ps[i].id = id}
    IN  IF hit = {} THEN NoProfile ELSE ps[CHOOSE i \in hit : TRUE]

Min(a, b) == IF a < b THEN a ELSE b
Max(a, b) == IF a < b THEN b ELSE a

\* Array.prototype.slice(0, n)
slice(seq, n) == SubSeq(seq, 1, Min(n, Len(seq)))

\* Array.prototype.sort((a, b) => b.score - a.score) over a list of
\* [item, score]: descending and stable
RECURSIVE sortByKeys(_, _)
sortByKeys(scored, keys) ==
    IF keys = {} THEN <<>>
    ELSE LET top == CHOOSE k \in keys : \A j \in keys : j <= k
         IN  SelectSeq(scored, LAMBDA x : x.score = top)
                \o sortByKeys(scored, keys \ {top})

\* no sort at all
sortNone(scored) == scored

sortDescending(scored) ==
    sortByKeys(scored, {scored[i].score : i \in DOMAIN scored})

\* the items of a list of [item, score]
items(scored) == [i \in DOMAIN scored |-> scored[i].item]

\* the answers of openai.chat.completions.create: the call throws, the
\* message has no content, the content is no JSON, the JSON has no matches
\* key, matches is no array, an element of matches is null, or matches is an
\* array of objects [profileId, matchScore]
ReplyFailures == {"error", "empty", "garbage", "notlist", "badentry"}

ScoreKinds == {"high", "mixed", "low"}
MixedScores == <<40, 60, 0, 100, 50>>
ScoreAt(kind, i) ==
    CASE kind = "high" -> 90
      [] kind = "low" -> 49
      [] OTHER -> MixedScores[(i % Len(MixedScores)) + 1]

\* the ids a reply may name: the rows of the table and an id of no row
IdPool(ps) == [i \in 1..Len(ps) |-> ps[i].id] \o <<"ghost">>

\* a list of n matches that names the ids of the pool in turn, from start on
ListReply(ps, n, start, kind) ==
    LET pool == IdPool(ps)
    IN  [kind |-> "list",
         matches |-> [i \in 1..n |->
            [profileId |-> pool[((start + i - 1) % Len(pool)) + 1],
             matchScore |-> ScoreAt(kind, i)]]]

\* short lists, and lists longer than any limit
ReplyLengths == {0, 1, 2, 3, MaxReply - 1, MaxReply}

Replies(ps) ==
    {[kind |-> k, matches |-> <<>>] : k \in ReplyFailures \cup {"nokey"}}
    \cup {ListReply(ps, n, start, kind) :
            n \in ReplyLengths, start \in {0, 1}, kind \in ScoreKinds}

ScoreThreshold == 50

\* the filter of line 66 without its threshold
scoreQualifiesAlways(m) == m.matchScore >= 0

\* line 66: m.matchScore >= 50
scoreQualifies(m) == m.matchScore >= ScoreThreshold

\* line 67: the matches in descending order of their matchScore
sortMatches(ms) ==
    items(sortDescending([i \in DOMAIN ms |-> [item |-> ms[i], score |-> ms[i].matchScore]]))

\* generateMatches with its catch (lines 69-72) removed: a failure is thrown on
generateMatchesUncaught(candidates, limit, reply) ==
    IF Len(candidates) = 0
    THEN [threw |-> FALSE, matches |-> <<>>]
    ELSE IF reply.kind \in ReplyFailures
    THEN [threw |-> TRUE, matches |-> <<>>]
    ELSE [threw |-> FALSE,
          matches |-> slice(sortMatches(SelectSeq(reply.matches, scoreQualifies)),
                            limit)]

\* generateMatches: no call without candidates; every failure between the
\* call and the parsing is caught and gives []; else filter, sort, slice
generateMatches(candidates, limit, reply) ==
    IF Len(candidates) = 0
    THEN [threw |-> FALSE, matches |-> <<>>]
    ELSE IF reply.kind \in ReplyFailures
    THEN [threw |-> FALSE, matches |-> <<>>]
    ELSE [threw |-> FALSE,
          matches |-> slice(sortMatches(SelectSeq(reply.matches, scoreQualifies)),
                            limit)]

\* the limit of the query string: absent, empty, no number, or a number
LimitNumbers == {0 - 1, 0, 2, 20, 50}
LimitParams ==
    {[kind |-> k, n |-> 0] : k \in {"absent", "empty", "word"}}
    \cup {[kind |-> "number", n |-> n] : n \in LimitNumbers}

DefaultLimit == 10
LimitCap == 20
PreRankCap == 20

\* lines 541-542 without the upper clamp
maxResultsUncapped(limit) ==
    IF limit.kind = "number" THEN Max(1, limit.n) ELSE DefaultLimit

\* lines 541-542: limit ? parseInt(limit, 10) : 10, NaN replaced by 10,
\* clamped to 1..20
maxResults(limit) ==
    LET isNaN == limit.kind = "word"
        parsedLimit == IF limit.kind \in {"absent", "empty"} THEN DefaultLimit
                       ELSE limit.n
    IN  Min(Max(1, IF isNaN THEN DefaultLimit ELSE parsedLimit), LimitCap)

\* lines 518-538: the caller's account, its profile, and the status the
\* handler answers before it does any work (200 when it goes on)
suggestCaller(cred) ==
    IF nodeEnv = "development" \/ nodeEnv = "test" THEN cred.hdr ELSE cred.sub

\* lines 518-538 without the comparison of lines 536-538
suggestStatusAnyProfile(cred, profileId) ==
    IF suggestCaller(cred) = NoVal THEN 401
    ELSE IF getProfileByUserId(profiles, suggestCaller(cred)) = NoProfile THEN 404
    ELSE 200

suggestStatus(cred, profileId) ==
    IF suggestCaller(cred) = NoVal THEN 401
    ELSE IF getProfileByUserId(profiles, suggestCaller(cred)) = NoProfile THEN 404
    ELSE IF getProfileByUserId(profiles, suggestCaller(cred)).id # profileId THEN 403
    ELSE 200

\* lines 558-565: the roles a profile is matched against
roleCompatible(current, p) ==
    CASE current.role = "coder" -> p.role = "investor" \/ p.role = "technical"
      [] current.role = "investor" -> p.role = "coder"
      [] current.role = "technical" -> p.role = "coder"
      [] OTHER -> FALSE

\* lines 569-572: the other party of each match of the profile
existingMatchIds(ms, profileId) ==
    {IF ms[i].initiatorId = profileId THEN ms[i].receiverId ELSE ms[i].initiatorId :
        i \in getMatches(ms, profileId)}

\* lines 550-573: not the profile itself, the role of the query if there is
\* one, a compatible role, no match with the profile yet
candidateProfiles(ps, ms, current, role) ==
    SelectSeq(ps, LAMBDA p :
        /\ p.id # current.id
        /\ role = NoVal \/ p.role = role
        /\ roleCompatible(current, p)
        /\ p.id \notin existingMatchIds(ms, current.id))

\* lines 579-591: 10 for each tag of the candidate the user has too, 5 for
\* the user's location
preRankScoreOf(currentId, candidateId) ==
    LET userTags == {TagsOf(currentId)[i] : i \in DOMAIN TagsOf(currentId)}
        overlap == Len(SelectSeq(TagsOf(candidateId), LAMBDA tag : tag \in userTags))
    IN  overlap * 10
        + (IF LocationOf(currentId) # Null
              /\ LocationOf(candidateId) = LocationOf(currentId)
           THEN 5 ELSE 0)

\* the score of every pair of rows, the rows' tags and locations being fixed
PreRankTable ==
    [currentId \in AllProfileIds |->
        [candidateId \in AllProfileIds |-> preRankScoreOf(currentId, candidateId)]]

preRankScore(current, candidate) == PreRankTable[current.id][candidate.id]

\* lines 578-593: each candidate with its score
scoreCandidates(current, cands) ==
    [i \in DOMAIN cands |-> [item |-> cands[i], score |-> preRankScore(current, cands[i])]]

\* lines 577-596 without the slice
rankedCandidatesAll(current, cands) ==
    items(sortDescending(scoreCandidates(current, cands)))

\* lines 577-596: score, sort by the score, keep the first 20
rankedCandidates(current, cands) ==
    items(slice(sortDescending(scoreCandidates(current, cands)), PreRankCap))

\* lines 617-625: each match with the profile row of its profileId
enrich(ps, aiMatches) ==
    [i \in DOMAIN aiMatches |->
        [profileId |-> aiMatches[i].profileId,
         matchScore |-> aiMatches[i].matchScore,
         profile |-> getProfile(ps, aiMatches[i].profileId)]]

\* the handler for a caller it refuses (lines 513-538)
SuggestRefused(cred, profileId) ==
    /\ req = NoReq
    /\ suggestStatus(cred, profileId) # 200
    /\ req' = Request("suggest", suggestCaller(cred), profileId, 0, NoVal)
    /\ resp' = Response(suggestStatus(cred, profileId), <<>>)
    /\ UNCHANGED <<profiles, matchVars, projectVars, envVars, clientVars>>

\* the handler for the caller's own profile (lines 540-631); reply is the
\* answer the generation service gives if it is called
Suggest(cred, profileId, role, limit, reply) ==
    LET currentProfile == getProfileByUserId(profiles, suggestCaller(cred))
        ranked == rankedCandidates(currentProfile,
                    candidateProfiles(profiles, matches, currentProfile, role))
        ai == generateMatches(ranked, maxResults(limit), reply)
    IN  /\ req = NoReq
        /\ suggestStatus(cred, profileId) = 200
        /\ req' = Request("suggest", suggestCaller(cred), profileId, limit.n, limit.kind)
        /\ aiCall' = IF Len(ranked) = 0 THEN NoCall
                     ELSE [candidates |-> [i \in DOMAIN ranked |-> ranked[i].id],
                           reply |-> reply.kind, role |-> role]
        /\ resp' = IF ai.threw THEN Response(500, <<>>)
                   ELSE Response(200, enrich(profiles, ai.matches))
        /\ UNCHANGED <<profiles, matchVars, projectVars, nodeEnv, clientVars>>

\* A profiles table: the two profiles with an account and k further profiles
\* of one role, without an account.
SuggestTable(k, role) ==
    InitProfiles \o [i \in 1..k |-> [id |-> ExtraIdSeq[i], userId |-> Null, role |-> role]]

\* the matches of the table: none, or one, pending or resolved
LinkRows ==
    {[initiatorId |-> "p1", receiverId |-> "p2", status |-> "pending", respondedAt |-> Null],
     [initiatorId |-> "p2", receiverId |-> "p1", status |-> "accepted", respondedAt |-> "t0"],
     [initiatorId |-> "p1", receiverId |-> "q1", status |-> "rejected", respondedAt |-> "t0"],
     [initiatorId |-> "q2", receiverId |-> "p1", status |-> "pending", respondedAt |-> Null]}

LinkTables(ps) ==
    {<<>>} \cup {<<m>> : m \in {l \in LinkRows : /\ profileExists(ps, l.initiatorId)
                                                  /\ profileExists(ps, l.receiverId)}}

\* few further profiles, or more than the pre-ranking keeps
ExtraCounts == {0, 1, 2, MaxExtra - 1, MaxExtra}

InitSuggest ==
    /\ \E k \in ExtraCounts, role \in Roles : profiles = SuggestTable(k, role)
    /\ matches \in LinkTables(profiles)
    /\ created = [i \in DOMAIN matches |-> matches[i].receiverId]
    /\ inflight = EmptyBag
    /\ now = 0
    /\ projects = <<>>
    /\ members = <<>>
    /\ tasks = <<>>
    /\ repos = <<>>
    /\ contribs = <<>>
    /\ req = NoReq
    /\ resp = NoResp
    /\ nodeEnv \in NodeEnvs
    /\ aiCall = NoCall
    /\ form = NoForm
    /\ page = NoPage

NextSuggest ==
    \/ \E cred \in Creds, profileId \in ProfileIds : SuggestRefused(cred, profileId)
    \/ /\ req = NoReq
       /\ \E reply \in Replies(profiles), cred \in Creds, profileId \in ProfileIds :
            /\ suggestStatus(cred, profileId) = 200
            /\ \E role \in Roles \cup {NoVal}, limit \in LimitParams :
                    Suggest(cred, profileId, role, limit, reply)
    \/ Sent

SpecSuggest == InitSuggest /\ [][NextSuggest]_vars

-----------------------------------------------------------------------------
(* client/src/pages/Projects.tsx: the array inputs of the creation form. *)

\* what the user can have typed into one of the three text inputs
Typings == {"", " ", "react", " react ", "vue"}

\* String.prototype.trim
trim(s) ==
    CASE s = " " -> ""
      [] s = " react " -> "react"
      [] OTHER -> s

\* Array.prototype.includes
includes(list, v) == \E i \in DOMAIN list : list[i] = v

\* list.filter((_, i) => i !== index), with the 0-based index of the code
filterIndex(list, index) ==
    SubSeq(list, 1, index) \o SubSeq(list, index + 2, Len(list))

\* useForm's defaultValues and the three useState("") inputs
EmptyForm ==
    [techStack |-> <<>>, projectLinks |-> <<>>, requiredSkills |-> <<>>,
     techStackInput |-> "", linkInput |-> "", skillInput |-> ""]

serverVars == <<profiles, matchVars, projectVars, req, resp, envVars, page>>

\* onChange of the inputs
setTechStackInput(v) ==
    /\ form' = [form EXCEPT !.techStackInput = v]
    /\ UNCHANGED serverVars

setLinkInput(v) ==
    /\ form' = [form EXCEPT !.linkInput = v]
    /\ UNCHANGED serverVars

setSkillInput(v) ==
    /\ form' = [form EXCEPT !.skillInput = v]
    /\ UNCHANGED serverVars

addTechStack ==
    /\ trim(form.techStackInput) # ""
    /\ Len(form.techStack) < MaxItems
    /\ form' = [form EXCEPT !.techStack = Append(@, trim(form.techStackInput)),
                            !.techStackInput = ""]
    /\ UNCHANGED serverVars

removeTechStack(index) ==
    /\ index < Len(form.techStack)
    /\ form' = [form EXCEPT !.techStack = filterIndex(@, index)]
    /\ UNCHANGED serverVars

addLink ==
    /\ trim(form.linkInput) # ""
    /\ Len(form.projectLinks) < MaxItems
    /\ form' = [form EXCEPT
                  !.projectLinks = IF includes(@, trim(form.linkInput)) THEN @
                                   ELSE Append(@, trim(form.linkInput)),
                  !.linkInput = ""]
    /\ UNCHANGED serverVars

removeLink(index) ==
    /\ index < Len(form.projectLinks)
    /\ form' = [form EXCEPT !.projectLinks = filterIndex(@, index)]
    /\ UNCHANGED serverVars

addSkill ==
    /\ trim(form.skillInput) # ""
    /\ Len(form.requiredSkills) < MaxItems
    /\ form' = [form EXCEPT
                  !.requiredSkills = IF includes(@, trim(form.skillInput)) THEN @
                                     ELSE Append(@, trim(form.skillInput)),
                  !.skillInput = ""]
    /\ UNCHANGED serverVars

removeSkill(index) ==
    /\ index < Len(form.requiredSkills)
    /\ form' = [form EXCEPT !.requiredSkills = filterIndex(@, index)]
    /\ UNCHANGED serverVars

\* the dialog has just been opened
InitForm ==
    /\ profiles = InitProfiles
    /\ matches = <<>>
    /\ created = <<>>
    /\ inflight = EmptyBag
    /\ now = 0
    /\ projects = <<>>
    /\ members = <<>>
    /\ tasks = <<>>
    /\ repos = <<>>
    /\ contribs = <<>>
    /\ req = NoReq
    /\ resp = NoResp
    /\ nodeEnv = "development"
    /\ aiCall = NoCall
    /\ form = EmptyForm
    /\ page = NoPage

NextForm ==
    \/ \E v \in Typings : setTechStackInput(v)
    \/ \E v \in Typings : setLinkInput(v)
    \/ \E v \in Typings : setSkillInput(v)
    \/ addTechStack
    \/ \E index \in 0..(MaxItems - 1) : removeTechStack(index)
    \/ addLink
    \/ \E index \in 0..(MaxItems - 1) : removeLink(index)
    \/ addSkill
    \/ \E index \in 0..(MaxItems - 1) : removeSkill(index)

SpecForm == InitForm /\ [][NextForm]_vars

-----------------------------------------------------------------------------
(* client/src/pages/ProjectDashboard.tsx with TasksSection and TeamSection: *)
(* one browser loads the dashboard of a project while the server goes on.   *)

\* who looks at the dashboard: the id /api/auth/user answers with
Viewers == ProfileIds

\* lines 39-42, over the data the queries have delivered so far (undefined
\* is NoVal; an unloaded member list is the empty list for find)
isOwner(pg) == pg.user = pg.project.vibeCodeId

\* members?.find(m => m.profileId === currentUserId): the first such row, or 0
currentMember(pg) ==
    LET own == {i \in DOMAIN pg.members : pg.members[i].profileId = pg.user}
    IN  IF own = {} THEN 0 ELSE CHOOSE i \in own : \A j \in own : i <= j

isTeamMember(pg) == isOwner(pg) \/ currentMember(pg) # 0

hasFullAccess(pg) ==
    isOwner(pg) \/ (currentMember(pg) # 0 /\ pg.members[currentMember(pg)].hasAccess)

\* lines 62-103: what the component renders
screen(pg) ==
    IF pg.authLoading \/ pg.projectLoading \/ pg.project.id = NoVal \/ pg.user = NoVal
    THEN "loading"
    ELSE IF ~isTeamMember(pg) THEN "denied"
    ELSE "dashboard"

\* list.filter(keep) for a list of rows, by the field the components test
filterBy(list, field, value) == SelectSeq(list, LAMBDA row : row[field] = value)

\* TasksSection: tasks || [] filtered by assignee unless hasFullAccess
visibleTasks(pg) ==
    IF hasFullAccess(pg) THEN pg.tasks ELSE filterBy(pg.tasks, "assignedTo", pg.user)

\* TeamSection: members || [] filtered by profile unless hasFullAccess
visibleMembers(pg) ==
    IF hasFullAccess(pg) THEN pg.members ELSE filterBy(pg.members, "profileId", pg.user)

\* the rows of a project, as the list handlers answer them
listOf(rows, projectId) == SelectSeq(rows, LAMBDA row : row.projectId = projectId)

pageFrame == <<profiles, matchVars, projectVars, req, resp, envVars, form>>

\* the page is mounted: every query is pending
OpenDashboard(viewer, projectId) ==
    /\ ~page.open
    /\ page' = [NoPage EXCEPT !.open = TRUE, !.viewer = viewer,
                              !.projectId = projectId,
                              !.authLoading = TRUE, !.projectLoading = TRUE]
    /\ UNCHANGED pageFrame

\* useAuth: /api/auth/user has answered
UserLoaded ==
    /\ page.open /\ page.authLoading
    /\ page' = [page EXCEPT !.authLoading = FALSE, !.user = page.viewer]
    /\ UNCHANGED pageFrame

\* the project query has answered
ProjectLoaded ==
    /\ page.open /\ page.projectLoading
    /\ page' = [page EXCEPT !.projectLoading = FALSE,
                            !.project = LET j == getProject(projects, page.projectId)
                                        IN  [id |-> j.id, vibeCodeId |-> j.vibeCodeId]]
    /\ UNCHANGED pageFrame

\* the members query has answered, for the first time or after an invalidation
MembersLoaded ==
    /\ page.open
    /\ page' = [page EXCEPT !.membersLoaded = TRUE,
                            !.members = listOf(members, page.projectId)]
    /\ page' # page
    /\ UNCHANGED pageFrame

\* the tasks query, enabled for team members (line 59), has answered
TasksLoaded ==
    /\ page.open
    /\ isTeamMember(page)
    /\ page' = [page EXCEPT !.tasksLoaded = TRUE,
                            !.tasks = listOf(tasks, page.projectId)]
    /\ page' # page
    /\ UNCHANGED pageFrame

\* the project of p1 with no member and no task; no page is open
InitDashboard ==
    /\ profiles = Append(InitProfiles, [id |-> "p3", userId |-> "u3", role |-> "technical"])
    /\ matches = <<>>
    /\ created = <<>>
    /\ inflight = EmptyBag
    /\ now = 0
    /\ projects = <<[id |-> "j1", vibeCodeId |-> "p1", status |-> "active"]>>
    /\ members = <<>>
    /\ tasks = <<>>
    /\ repos = <<>>
    /\ contribs = <<>>
    /\ req = NoReq
    /\ resp = NoResp
    /\ nodeEnv = "development"
    /\ aiCall = NoCall
    /\ form = NoForm
    /\ page = NoPage

NextDashboard ==
    \/ \E j \in ProjectIds, data \in TechnicalBodies : PostMember(j, data)
    \/ \E j \in ProjectIds, p \in ProfileIds \cup {Null} : PostTask(j, p)
    \/ \E id \in 1..MaxMembers, body \in PlainToggleBodies : PatchMember("p1", id, body)
    \/ Sent
    \/ \E viewer \in Viewers, j \in ProjectIds : OpenDashboard(viewer, j)
    \/ UserLoaded
    \/ ProjectLoaded
    \/ MembersLoaded
    \/ TasksLoaded

SpecDashboard == InitDashboard /\ [][NextDashboard]_vars

-----------------------------------------------------------------------------
(* The claims about matches. *)

\* the unordered pair of profiles of a match
Pair(m) == {m.initiatorId, m.receiverId}

\* a pending match between profiles a and b, whoever initiated it
PendingBetween(a, b) ==
    \E i \in DOMAIN matches : matches[i].status = "pending" /\ Pair(matches[i]) = {a, b}

\* C1: in every reachable state there is at most one pending match for any
\* unordered pair of profiles.
C1_OnePendingPerPair ==
    \A i, j \in DOMAIN matches :
        (i # j /\ matches[i].status = "pending" /\ matches[j].status = "pending")
            => Pair(matches[i]) # Pair(matches[j])

\* C2: a creation request for initiator A and receiver B whose body passes the
\* schema is answered 409 and creates no record whenever a pending match
\* exists between A and B in either direction: the request does not go on to
\* the insert, and no row is added.
C2_ConflictOnPending ==
    [][/\ \A d \in PostBodies :
            CopiesIn(d, inflight') > CopiesIn(d, inflight)
                => ~PendingBetween(d.initiatorId, d.receiverId)
       /\ (/\ req'.op = "postMatch"
           /\ req'.arg # "invalid"
           /\ inflight' = inflight
           /\ PendingBetween(req'.caller, req'.peer))
            => (resp'.status = 409 /\ matches' = matches)]_vars

\* C2 witness: a request was answered 409 because of a pending match that its
\* receiver had initiated.
C2_Witness ==
    /\ req.op = "postMatch"
    /\ resp.status = 409
    /\ \E i \in DOMAIN matches :
        /\ matches[i].status = "pending"
        /\ matches[i].initiatorId = req.peer
        /\ matches[i].receiverId = req.caller
    /\ ~\E i \in DOMAIN matches :
        /\ matches[i].status = "pending"
        /\ matches[i].initiatorId = req.caller
        /\ matches[i].receiverId = req.peer

\* C3: a match leaves pending only through an update requested by the profile
\* that was its receiver when it was created; a request by anyone else to set
\* accepted or rejected is refused and leaves the matches unchanged.
C3_OnlyReceiverResolves ==
    [][/\ \A i \in DOMAIN matches :
            (matches[i].status = "pending" /\ matches'[i].status # "pending")
                => (req'.op = "patchMatch" /\ req'.id = i /\ req'.caller = created[i])
       /\ (/\ req'.op = "patchMatch"
           /\ req'.arg \in {"accepted", "rejected"}
           /\ req'.id \in DOMAIN matches
           /\ req'.caller # created[req'.id])
            => (resp'.status \in {401, 403, 404} /\ matches' = matches)]_vars

\* C4: every match starts pending, and its status only changes from pending
\* to accepted or from pending to rejected.
C4_Lifecycle ==
    [][\A i \in DOMAIN matches' :
            IF i \in DOMAIN matches
            THEN matches'[i].status # matches[i].status
                    => (matches[i].status = "pending"
                        /\ matches'[i].status \in {"accepted", "rejected"})
            ELSE matches'[i].status = "pending"]_vars

\* C5: respondedAt is null while the match is pending, is set by the update
\* that moves the match out of pending, and never changes afterwards.
C5_RespondedAtOnce ==
    [][\A i \in DOMAIN matches' :
            /\ matches'[i].status = "pending" => matches'[i].respondedAt = Null
            /\ i \in DOMAIN matches =>
                /\ (matches[i].status = "pending" /\ matches'[i].status # "pending")
                        => matches'[i].respondedAt # Null
                /\ matches'[i].respondedAt # matches[i].respondedAt
                        => (matches[i].status = "pending"
                            /\ matches'[i].status # "pending")]_vars

-----------------------------------------------------------------------------
(* The claims about project access. *)

\* the profile of the caller who sends the header: the profile of that account
RequesterId(hdr) == getProfileByUserId(profiles, hdr).id

IsOwner(profileId, projectId) ==
    profileId # NoVal /\ getProject(projects, projectId).vibeCodeId = profileId

MemberRows(profileId, projectId) ==
    {i \in rowsOfProject(members, projectId) : members[i].profileId = profileId}

\* neither the owner nor in the member list
IsNonMember(profileId, projectId) ==
    ~IsOwner(profileId, projectId) /\ MemberRows(profileId, projectId) = {}

\* in the member list with hasAccess = false, and not the owner
IsLimitedMember(profileId, projectId) ==
    /\ ~IsOwner(profileId, projectId)
    /\ MemberRows(profileId, projectId) # {}
    /\ \A i \in MemberRows(profileId, projectId) : ~members[i].hasAccess

ListOps == {"getTasks", "getMembers", "getRepositories", "getContributions"}

\* C6: a requester who is neither the owner of a project nor in its member
\* list is answered with a permission denial by the reads of its tasks,
\* members, repositories and contributions.
C6_NonMemberDenied ==
    (req.op \in ListOps /\ IsNonMember(RequesterId(req.caller), req.peer))
        => resp.status \in {401, 403}

\* C7: the answer to a limited member for the project's tasks holds only
\* tasks assigned to that member, and the answer for the project's members
\* holds only that member's own rows.
C7_LimitedMemberFiltered ==
    LET me == RequesterId(req.caller)
    IN  /\ (req.op = "getTasks" /\ IsLimitedMember(me, req.peer))
                => \A i \in resp.body : tasks[i].assignedTo = me
        /\ (req.op = "getMembers" /\ IsLimitedMember(me, req.peer))
                => \A i \in resp.body : members[i].profileId = me

\* C8: a read of a project's repositories or contributions by a limited
\* member returns none of the project's repository or contribution records.
C8_LimitedMemberNoRepos ==
    (/\ req.op \in {"getRepositories", "getContributions"}
     /\ IsLimitedMember(RequesterId(req.caller), req.peer))
        => resp.body = {}

\* C9: for an existing member row of an existing project, a hasAccess toggle
\* requested by an identified caller who is not the project's owner is
\* answered 403 and leaves the member rows unchanged.
C9_NonOwnerToggleRefused ==
    [][(/\ req'.op = "patchMember"
        /\ req'.arg # "invalid"
        /\ req'.caller # NoVal
        /\ req'.id \in DOMAIN members
        /\ ~IsOwner(RequesterId(req'.caller), members[req'.id].projectId))
            => (resp'.status = 403 /\ members' = members)]_vars

\* C10: a hasAccess toggle requested by the caller whose profile id equals the
\* project's owner id succeeds and sets the target member's hasAccess to the
\* requested value.
C10_OwnerToggleSucceeds ==
    [][(/\ req'.op = "patchMember"
        /\ req'.arg # "invalid"
        /\ req'.id \in DOMAIN members
        /\ IsOwner(RequesterId(req'.caller), members[req'.id].projectId))
            => (/\ resp'.status = 200
                /\ BoolStr(members'[req'.id].hasAccess) = req'.arg)]_vars

-----------------------------------------------------------------------------
(* The claims about the caller's identity, profiles and projects. *)

\* the handlers that take the caller's identity from resolveCurrentProfile or
\* from the header itself; their req carries the header as caller and the
\* session's sub as peer (PATCH /api/project-members/:id reads no session)
IdentityOps == {"postProject", "patchMember"}

\* C11: when NODE_ENV is neither development nor test, a request that carries
\* an x-user-id header and no verified session is answered 401 by every handler
\* that identifies its caller, and leaves the profiles table as it was.
C11_HeaderIgnoredInProduction ==
    [][(/\ req = NoReq
        /\ nodeEnv \notin {"development", "test"}
        /\ req'.op \in IdentityOps
        /\ req'.caller # NoVal
        /\ req'.peer = NoVal)
       => (resp'.status = 401 /\ profiles' = profiles)]_vars

-----------------------------------------------------------------------------
(* The claims about suggestions.  In an answered suggestion request,         *)
(* req.peer is the profile P of the path and resp.body the list of entries.  *)

Served == req.op = "suggest" /\ resp.status = 200

\* C12: no entry of a suggestion result for profile P has P's own id as its
\* profileId, whatever the generation service answered.
C12_NoSelfSuggestion ==
    Served => \A i \in DOMAIN resp.body : resp.body[i].profileId # req.peer

\* a match record between profiles a and b, in either direction and any status
Connected(a, b) ==
    \E m \in DOMAIN matches :
        \/ matches[m].initiatorId = a /\ matches[m].receiverId = b
        \/ matches[m].initiatorId = b /\ matches[m].receiverId = a

\* C13: no entry of a suggestion result for profile P names a profile that
\* has a match record with P, pending or resolved, in either direction.
C13_NoConnectedSuggestion ==
    Served => \A i \in DOMAIN resp.body : ~Connected(req.peer, resp.body[i].profileId)

\* the roles the spec matches a role against
CompatibleRoles(role) ==
    IF role = "coder" THEN {"investor", "technical"} ELSE {"coder"}

\* C14: every entry of a suggestion result for profile P names a profile whose
\* role is compatible with P's: investor or technical for a coder, coder for
\* an investor or a technical lead.
C14_CompatibleSuggestion ==
    Served => \A i \in DOMAIN resp.body :
                getProfile(profiles, resp.body[i].profileId).role
                    \in CompatibleRoles(getProfile(profiles, req.peer).role)

\* C15: no entry of a suggestion result has a matchScore below 50.
C15_ScoreAtLeast50 ==
    Served => \A i \in DOMAIN resp.body : resp.body[i].matchScore >= 50

\* a result that kept an entry with score 50 exactly
C15_Witness ==
    Served /\ aiCall.reply = "list" /\ \E i \in DOMAIN resp.body : resp.body[i].matchScore = 50

\* C16: the candidate list handed to the generation service never has more
\* than 20 entries.
C16_AtMost20Candidates == Len(aiCall.candidates) <= 20

\* the profiles of a compatible role other than P that have no match with P
Eligible(P) ==
    {i \in DOMAIN profiles :
        /\ profiles[i].id # P
        /\ profiles[i].role \in CompatibleRoles(getProfile(profiles, P).role)
        /\ ~Connected(P, profiles[i].id)}

\* a call with 20 candidates for a profile that has more than 20 eligible ones
C16_Witness ==
    /\ Served
    /\ Len(aiCall.candidates) = 20
    /\ Cardinality(Eligible(req.peer)) > 20

\* the limit of the claim: the requested number clamped to 1..20, 10 when
\* the limit is absent or no number (req.arg is the kind, req.id the number)
ClaimedLimit ==
    IF req.arg # "number" THEN 10
    ELSE IF req.id < 1 THEN 1
    ELSE IF req.id > 20 THEN 20
    ELSE req.id

\* C17: a suggestion result has at most L entries, L being the requested limit
\* clamped to 1..20, and 10 when the limit is absent or not a number.
C17_AtMostLimitEntries == Served => Len(resp.body) <= ClaimedLimit

\* limit=50 answered with 20 entries
C17_Witness == Served /\ req.arg = "number" /\ req.id = 50 /\ Len(resp.body) = 20

\* C18: when the generation call fails, has no content, or has content that
\* is no list of matches, the suggestion request is answered 200 with an
\* empty list.
C18_FailSoft ==
    (req.op = "suggest" /\ aiCall.reply \in ReplyFailures \cup {"nokey"})
        => (resp.status = 200 /\ resp.body = <<>>)

\* an unparsable answer of the service, answered 200 with an empty list
C18_Witness ==
    /\ req.op = "suggest"
    /\ aiCall.reply = "garbage"
    /\ Len(aiCall.candidates) > 0
    /\ resp.status = 200
    /\ resp.body = <<>>

-----------------------------------------------------------------------------
(* The claims about projects and profiles. *)

\* the request that has just been answered carries a credential, header or
\* session, of the account whose profile owns the project
RequestedByOwner(project) ==
    \E account \in {req'.caller, req'.peer} \ {NoVal} :
        getProfileByUserId(profiles, account).id = project.vibeCodeId

\* C19: a project changes only in a step that answers an update request
\* (PATCH /api/projects/:id) of its owner; an update request of any other
\* caller leaves the project as it was.
C19_OnlyOwnerUpdatesProject ==
    [][\A j \in DOMAIN projects :
            projects'[j] # projects[j]
                => (req'.op = "patchProject" /\ RequestedByOwner(projects[j]))]_vars

\* C20: in every reachable state no two profiles have the same account.
C20_OneProfilePerAccount ==
    \A i, j \in DOMAIN profiles :
        (i # j /\ profiles[i].userId # Null) => profiles[i].userId # profiles[j].userId

\* a well-formed creation request for an account that has a profile, refused
C20_Witness ==
    /\ req.op = "postProfile"
    /\ req.peer # NoVal
    /\ resp.status = 400
    /\ \E i \in DOMAIN profiles : profiles[i].userId = req.arg

-----------------------------------------------------------------------------
(* The claims about the creation form. *)

NoDuplicates(list) ==
    \A i, j \in DOMAIN list : list[i] = list[j] => i = j

\* C21: after any sequence of add and remove actions in the project creation
\* form, none of techStack, projectLinks and requiredSkills holds the same
\* value twice.
C21_NoDuplicateItems ==
    /\ NoDuplicates(form.techStack)
    /\ NoDuplicates(form.projectLinks)
    /\ NoDuplicates(form.requiredSkills)


-----------------------------------------------------------------------------
(* The claims about concurrent creation requests. *)

\* C22: the duplicate check and the insert of POST /api/matches are two
\* storage operations with nothing that holds them together: a request that
\* has passed the duplicate test inserts its row whatever the table has become in
\* between, so two interleaved requests for one pair both insert.
C22_InsertDoesNotRecheck ==
    [][\A data \in PostBodies :
          PostMatchInsert(data) =>
              /\ Len(matches') = Len(matches) + 1
              /\ resp'.status = 201]_vars

\* two requests for one pair have both inserted: the second insert has just
\* been answered and both rows are pending and were never responded to
C22_Witness ==
    /\ req.op = "postMatch"
    /\ resp.status = 201
    /\ req.id >= 2
    /\ \E i \in 1..(req.id - 1) :
          /\ Pair(matches[i]) = Pair(matches[req.id])
          /\ matches[i].status = "pending"
          /\ matches[req.id].status = "pending"
          /\ matches[i].respondedAt = Null
          /\ matches[req.id].respondedAt = Null

-----------------------------------------------------------------------------
(* The claims about what the access toggle writes. *)

\* C23: a successful toggle changes the hasAccess of the row it names to the
\* value of the body and nothing else: the row's other fields, the other
\* member rows and every other table stay as they were, whatever other keys
\* the body carries.
C23_ToggleFrame ==
    [][(req = NoReq /\ req'.op = "patchMember" /\ resp'.status = 200) =>
          /\ members' = [members EXCEPT ![req'.id] =
                            [@ EXCEPT !.hasAccess = (req'.arg = "true")]]
          /\ UNCHANGED <<profiles, matchVars, projects, tasks, repos, contribs>>]_vars

\* a toggle whose body carried a profileId besides has been answered 200, on a
\* row of an investor with another row beside it
C23_Witness ==
    /\ req.op = "patchMember"
    /\ resp.status = 200
    /\ req.peer # NoVal
    /\ Len(members) >= 2
    /\ members[req.id].role = "investor"
    /\ members[req.id].profileId # req.peer

-----------------------------------------------------------------------------
(* The claims about the project dashboard. *)

\* the user, the project and the member list have arrived
PageLoaded ==
    /\ page.open
    /\ ~page.authLoading /\ ~page.projectLoading /\ page.membersLoaded
    /\ page.project.id # NoVal

\* the rows the delivered member list holds for the requester
OwnRows == {i \in DOMAIN page.members : page.members[i].profileId = page.user}

\* the tier the dashboard resolves: full, limited or none
ResolvedTier ==
    IF hasFullAccess(page) THEN "full"
    ELSE IF isTeamMember(page) THEN "limited"
    ELSE "none"

\* C24: access resolution yields full access when the requester's id is the
\* project's owner id; otherwise full access when the member list holds a row
\* of the requester with hasAccess = true, whatever other rows it holds for
\* them; otherwise limited when the list holds a row of the requester;
\* otherwise non-member.
C24_TierPriority ==
    PageLoaded =>
        ResolvedTier =
            IF page.user = page.project.vibeCodeId THEN "full"
            ELSE IF \E i \in OwnRows : page.members[i].hasAccess THEN "full"
            ELSE IF OwnRows # {} THEN "limited"
            ELSE "none"

\* the dashboard is on the screen and the task list has arrived
DashboardShown == PageLoaded /\ page.tasksLoaded /\ screen(page) = "dashboard"

\* the requester is the owner, or the member list holds a row of the requester
\* with hasAccess = true
FullTier ==
    \/ page.user = page.project.vibeCodeId
    \/ \E i \in OwnRows : page.members[i].hasAccess

\* C25: the dashboard shows a team member without hasAccess only the tasks
\* assigned to that member and only the member's own membership rows; it shows
\* a member with hasAccess, and the owner, all tasks and all membership rows.
C25_DashboardFiltering ==
    DashboardShown =>
        IF FullTier
        THEN /\ visibleTasks(page) = page.tasks
             /\ visibleMembers(page) = page.members
        ELSE /\ \A i \in DOMAIN visibleTasks(page) :
                    visibleTasks(page)[i].assignedTo = page.user
             /\ \A i \in DOMAIN visibleMembers(page) :
                    visibleMembers(page)[i].profileId = page.user

-----------------------------------------------------------------------------
(* The claims about the pre-ranking of candidates and the enrichment. *)

TagSet(id) == {TagsOf(id)[i] : i \in DOMAIN TagsOf(id)}

\* 10 for every tag the two profiles share, 5 when both have the same
\* location and it is not null
SharedTagScore(a, b) ==
    10 * Cardinality(TagSet(a) \cap TagSet(b))
    + (IF LocationOf(a) # Null /\ LocationOf(a) = LocationOf(b) THEN 5 ELSE 0)

\* C26: the pre-ranking score of a candidate is 10 times the number of tags
\* the candidate shares with the requesting profile, plus 5 when the two have
\* the same non-null location.
C26_PreRankScore ==
    (req.op = "suggest" /\ aiCall # NoCall) =>
        \A i \in DOMAIN aiCall.candidates :
            preRankScoreOf(req.peer, aiCall.candidates[i])
                = SharedTagScore(req.peer, aiCall.candidates[i])

\* the profiles that pass the filters of a request for P whose query carried
\* the role filter of the call (none when it is absent)
Pool ==
    {profiles[i].id : i \in {j \in Eligible(req.peer) :
        aiCall.role = NoVal \/ profiles[j].role = aiCall.role}}

Included == {aiCall.candidates[i] : i \in DOMAIN aiCall.candidates}

\* C27: when more than 20 profiles pass the filters, the 20 handed to the
\* generation service are top-scoring ones in the order of their scores: no
\* profile left out has a strictly higher pre-ranking score than one handed
\* over, and the scores of the list never increase.
C27_TopScoringKept ==
    (req.op = "suggest" /\ aiCall # NoCall /\ Cardinality(Pool) > 20) =>
        /\ Len(aiCall.candidates) = 20
        /\ Included \subseteq Pool
        /\ \A e \in Pool \ Included : \A c \in Included :
                preRankScoreOf(req.peer, e) <= preRankScoreOf(req.peer, c)
        /\ \A i, j \in DOMAIN aiCall.candidates :
                i < j => preRankScoreOf(req.peer, aiCall.candidates[i])
                            >= preRankScoreOf(req.peer, aiCall.candidates[j])

\* a call for a profile with more than 20 eligible ones, where the list holds
\* different scores and a profile left out scores less than one handed over
C27_Witness ==
    /\ req.op = "suggest" /\ aiCall # NoCall /\ Cardinality(Pool) > 20
    /\ preRankScoreOf(req.peer, aiCall.candidates[1])
            > preRankScoreOf(req.peer, aiCall.candidates[20])
    /\ \E e \in Pool \ Included :
            preRankScoreOf(req.peer, e) < preRankScoreOf(req.peer, aiCall.candidates[1])

\* C28: every entry of a suggestion result carries the profile row whose id is
\* the entry's profileId, and no entry is without a profile, whatever the
\* generation service answered.
C28_EntriesCarryProfile ==
    Served => \A i \in DOMAIN resp.body :
                /\ resp.body[i].profile # NoProfile
                /\ resp.body[i].profile.id = resp.body[i].profileId

-----------------------------------------------------------------------------
(* The claims about whose suggestions a caller may ask for. *)

\* C29: a suggestion request for profile P by an identified caller whose own
\* profile is not P is answered 403, and the generation service is not called
\* for it.
C29_OtherProfileRefused ==
    (/\ req.op = "suggest"
     /\ req.caller # NoVal
     /\ getProfileByUserId(profiles, req.caller) # NoProfile
     /\ getProfileByUserId(profiles, req.caller).id # req.peer)
        => (resp.status = 403 /\ aiCall = NoCall)

\* the account of one profile has asked for another profile's suggestions
\* while it has candidates of its own
C29_Witness ==
    /\ req.op = "suggest"
    /\ resp.status = 403
    /\ getProfileByUserId(profiles, req.caller).id \notin {NoVal, req.peer}
    /\ profileExists(profiles, req.peer)
    /\ Eligible(getProfileByUserId(profiles, req.caller).id) # {}

-----------------------------------------------------------------------------
(* The claims about the loading of the dashboard. *)

\* the page has been given no member list, or the one the server holds now
NotOutOfDate ==
    ~page.membersLoaded \/ page.members = listOf(members, page.projectId)

\* C30: the dashboard shows Access Denied only to a requester who is neither
\* the owner nor a member of the project, at every moment of the page load and
\* in whatever order the user, project and member queries answer: while it is
\* on the screen of a page whose member list is not out of date, the requester
\* is not the project's owner and the member table holds no row of them.
C30_NoDenialForMembers ==
    (page.open /\ screen(page) = "denied" /\ NotOutOfDate) =>
        /\ getProject(projects, page.projectId).vibeCodeId # page.viewer
        /\ \A i \in rowsOfProject(members, page.projectId) :
                members[i].profileId # page.viewer

=============================================================================
